---- MODULE Spec2Model ----
(***************************************************************************)
(* A model of src/Funds.py: the identifier normaliser limpar_cnpj, the     *)
(* three source adapters of BuscadorFundos (buscar_anbima, buscar_vortx,   *)
(* buscar_cvm), the orchestrator agregar_dados and the aggregator          *)
(* results_to_dict.                                                        *)
(*                                                                         *)
(* Python values are written as follows.                                   *)
(*   - a str that the program builds (status, url, nota) is a TLA+ string, *)
(*     built with \o where the program uses an f-string;                   *)
(*   - the caller's identifier is a sequence of one-character strings, so  *)
(*     that re.sub can be modelled character by character;                 *)
(*   - a dict is a function whose DOMAIN is the set of keys present;       *)
(*   - a value decoded from the hydration JSON is the text of its JSON     *)
(*     literal ("null", "1.5", "\"A\""), and a Python str stored next to   *)
(*     such values (a sentinel) is the literal of that str.                *)
(***************************************************************************)
EXTENDS Integers, Sequences, FiniteSets, TLC

VARIABLES
    cnpj,        \* agregar_dados: the caller's argument (line 123)
    pc,          \* position of the agregar_dados call
    cnpj_limpo,  \* line 124
    session,     \* the aiohttp.ClientSession of line 127
    now,         \* time elapsed since the tasks were created
    task,        \* state of tarefa_anbima, tarefa_vortx, tarefa_cvm
    resp,        \* what each task's session.get produced
    result,      \* the dict each finished task returned
    report,      \* the dict agregar_dados returned
    ordem,       \* the sources in the order in which their tasks ran to the end
    pedidos,     \* the urls each task has passed to session.get
    self_resultados, \* the attribute set at line 21
    ch,          \* two calls on one instance: the state of each call
    n_in,        \* limpar_cnpj checked alone: the argument
    n_out,       \* limpar_cnpj(n_in)
    n_twice,     \* limpar_cnpj(limpar_cnpj(n_in))
    n_pc         \* how many times limpar_cnpj has been applied

vars == <<cnpj, pc, cnpj_limpo, session, now, task, resp, result, report,
          ordem, pedidos, self_resultados, ch, n_in, n_out, n_twice, n_pc>>

orch_vars == <<cnpj, pc, cnpj_limpo, session, now, task, resp, result, report,
               ordem, pedidos>>
duas_vars == <<ch>>
norm_vars == <<n_in, n_out, n_twice, n_pc>>

(***************************************************************************)
(* Bounds of the model.                                                    *)
(***************************************************************************)
\* longest identifier string drawn when limpar_cnpj is checked alone
MaxLen == 3

(***************************************************************************)
(* Strings.                                                                *)
(***************************************************************************)
Digits == <<"0", "1", "2", "3", "4", "5", "6", "7", "8", "9">>

DigitChars == {Digits[i] : i \in 1..10}

\* str(n) of a non-negative int, as an f-string formats response.status
RECURSIVE IntToStr(_)
IntToStr(n) ==
    IF n < 10 THEN Digits[n + 1]
    ELSE IntToStr(n \div 10) \o Digits[(n % 10) + 1]

\* the str whose characters are the elements of cs
RECURSIVE Join(_)
Join(cs) == IF cs = <<>> THEN "" ELSE Head(cs) \o Join(Tail(cs))

(***************************************************************************)
(* limpar_cnpj, lines 15-17: re.sub(r'[^0-9]', '', cnpj_input).            *)
(* The scan goes left to right; a character matching [^0-9] is replaced by *)
(* the empty string and every other character is copied.                   *)
(***************************************************************************)
Matches_NonDigit(c) == c \notin DigitChars

RECURSIVE limpar_cnpj_pontuacao(_)
limpar_cnpj_pontuacao(cnpj_input) ==
    IF cnpj_input = <<>> THEN <<>>
    ELSE IF Head(cnpj_input) \in {".", "-", "/"}
         THEN limpar_cnpj_pontuacao(Tail(cnpj_input))
         ELSE <<Head(cnpj_input)>> \o limpar_cnpj_pontuacao(Tail(cnpj_input))

RECURSIVE limpar_cnpj(_)
limpar_cnpj(cnpj_input) ==
    IF cnpj_input = <<>> THEN <<>>
    ELSE IF Matches_NonDigit(Head(cnpj_input))
         THEN limpar_cnpj(Tail(cnpj_input))
         ELSE <<Head(cnpj_input)>> \o limpar_cnpj(Tail(cnpj_input))

\* "00.000.000/0000-00"
CnpjFormatado ==
    <<"0", "0", ".", "0", "0", "0", ".", "0", "0", "0", "/",
      "0", "0", "0", "0", "-", "0", "0">>

\* "00000000000000"
CnpjSoDigitos == [i \in 1..14 |-> "0"]

(***************************************************************************)
(* What the network can hand to an adapter.                                *)
(*                                                                         *)
(* A decoded hydration document is described level by level along the path *)
(* the code walks (json_data -> props -> pageProps -> fundo -> the four    *)
(* fields).  A level is "absent" (the key is missing from its parent), the *)
(* literal of a value that is not a dict, "{}" (an empty dict) or "obj" (a *)
(* dict with at least one key, the next level saying which).               *)
(***************************************************************************)
Sources == {"Anbima", "Vórtx", "CVM"}

FieldKeys == {"nome", "patrimonioLiquido", "valorCota", "dataReferencia"}

\* JSON values that are not dicts: None, int 0, a non-empty str, a non-empty list
NonDictValues == {"null", "0", "\"x\"", "[1]"}

\* values of a field of fundo
FieldValues == {"absent", "null", "1.5"}

NoFields == [k \in FieldKeys |-> "absent"]

Doc(top, props, pageProps, fundo, fields) ==
    [top |-> top, props |-> props, pageProps |-> pageProps, fundo |-> fundo,
     fields |-> fields]

Below == NonDictValues \cup {"absent", "{}"}

Docs ==
    {Doc(t, "absent", "absent", "absent", NoFields) :
        t \in NonDictValues \cup {"{}"}}
    \cup {Doc("obj", p, "absent", "absent", NoFields) : p \in Below}
    \cup {Doc("obj", "obj", pp, "absent", NoFields) : pp \in Below}
    \cup {Doc("obj", "obj", "obj", f, NoFields) : f \in Below}
    \cup {Doc("obj", "obj", "obj", "obj", fs) : fs \in [FieldKeys -> FieldValues]}

NoDoc == Doc("null", "absent", "absent", "absent", NoFields)

\* str(e) of the exceptions the page can provoke
UnicodeErrorMsg == "'utf-8' codec can't decode byte 0xff in position 0: invalid start byte"
NoneJsonErrorMsg == "the JSON object must be str, bytes or bytearray, not NoneType"
JsonErrors == {"Expecting value: line 1 column 1 (char 0)",
               "Unterminated string starting at: line 1 column 7 (char 6)"}

Page(script, err, doc) == [script |-> script, err |-> err, doc |-> doc]

NoPage == Page("absent", "", NoDoc)

\* the bodies an HTTP 200 answer of Anbima can carry
Pages ==
    {Page("undecodable", UnicodeErrorMsg, NoDoc),   \* response.text() raises
     Page("absent", "", NoDoc),                     \* no <script id="__NEXT_DATA__">
     Page("empty", NoneJsonErrorMsg, NoDoc)}        \* script_next.string is None
    \cup {Page("malformed", e, NoDoc) : e \in JsonErrors}
    \cup {Page("json", "", d) : d \in Docs}

\* str(asyncio.TimeoutError())
TimeoutErrorMsg == ""

\* line 32 has not returned yet: the task is suspended in response.text()
PageAwaited == Page("awaited", "", NoDoc)

\* the timeout of the request expires while line 32 awaits the body
PageTimeout == Page("timeout", TimeoutErrorMsg, NoDoc)

\* the task is cancelled while line 32 awaits the body
PageCancelled == Page("cancelled", "", NoDoc)

HttpStatuses == {200, 404, 503}

\* str(e) of the transport exceptions session.get can raise
TransportErrors == {"Cannot connect to host"}

Response(kind, status, page, detail) ==
    [kind |-> kind, status |-> status, page |-> page, detail |-> detail]

NoResponse == Response("none", 0, NoPage, "")

TimeoutResponse == Response("timeout", 0, NoPage, TimeoutErrorMsg)

\* the task is cancelled while it awaits session.get: asyncio.CancelledError
CancelResponse == Response("cancelled", 0, NoPage, "")

\* Anbima has answered 200 and the body is still being read (line 32)
Response200SemCorpo == Response("http", 200, PageAwaited, "")

\* the outcome of an exchange whose body did not arrive before the timeout
Response200Timeout == Response("http", 200, PageTimeout, "")

\* the outcome of an exchange cancelled while the body was read
Response200Cancelled == Response("http", 200, PageCancelled, "")

\* asyncio.CancelledError was thrown into the coroutine, at line 30/89/111 or
\* at line 32
Cancelled(r) ==
    \/ r.kind = "cancelled"
    \/ r.kind = "http" /\ r.page.script = "cancelled"

\* what a provider can answer before the timeout of the request, the body of
\* a 200 of Anbima included
Answers(s) ==
    {Response("exception", 0, NoPage, d) : d \in TransportErrors}
    \cup {Response("http", st, NoPage, "") :
            st \in IF s = "Anbima" THEN HttpStatuses \ {200} ELSE HttpStatuses}
    \cup IF s = "Anbima"
         THEN {Response("http", 200, p, "") : p \in Pages}
         ELSE {}

(***************************************************************************)
(* Python semantics used by the extraction of lines 45-66.                 *)
(***************************************************************************)
IsDict(v) == v \in {"{}", "obj"}

\* a variant of the test of line 53: `is not None` in place of truthiness
Truthy_NaoNone(v) == v # "null"

\* bool(v)
Truthy(v) == v \in {"\"x\"", "[1]", "obj", "1.5"}

PyTypeName(v) ==
    CASE v = "null" -> "NoneType"
      [] v = "0" -> "int"
      [] v = "\"x\"" -> "str"
      [] v = "[1]" -> "list"
      [] OTHER -> "dict"

\* str(e) of the AttributeError of v.get(...) for a v that is no dict
AttributeErrorMsg(v) == "'" \o PyTypeName(v) \o "' object has no attribute 'get'"

\* d.get(key, {}) where child is what d holds under key
GetOrEmptyDict(child) == IF child = "absent" THEN "{}" ELSE child

\* fundo_data.get(key, 'N/A')
GetOrNA(fields, key) == IF fields[key] = "absent" THEN "\"N/A\"" ELSE fields[key]

\* dados_extraidos as initialised at lines 39-43
DadosIniciais ==
    [cota |-> "\"Não localizado\"",
     pl |-> "\"Não localizado\"",
     data_referencia |-> "\"N/A\""]

StatusSucesso == "Sucesso (Dados Extraídos via JSON Oculto)"
StatusEstrutura == "Estrutura JSON mudou ou fundo não tem dados públicos"
StatusSemScript == "Script de dados ocultos não encontrado"
PrefixoErroJson == "Erro ao ler JSON oculto: "
StatusPortal == "Acesso Portal (Dados protegidos por JS/Auth)"
StatusDisponivel == "Sistema Disponível"

Extraido(status, dados) == [status |-> status, dados |-> dados]

(***************************************************************************)
(* buscar_anbima, the HTTP 200 branch, lines 39-66: from the parsed page   *)
(* to (status_msg, dados_extraidos).                                       *)
(*   - no script tag                         -> line 66                    *)
(*   - json.loads raises                     -> line 64                    *)
(*   - a .get on a value that is no dict     -> AttributeError, line 64    *)
(*   - fundo_data falsy                      -> line 62                    *)
(*   - fundo_data truthy                     -> lines 55-60                *)
(* An exception of lines 47-58 leaves dados_extraidos as initialised: the  *)
(* first assignment (line 55) evaluates fundo_data.get before it stores.   *)
(***************************************************************************)
\* a variant of lines 55-58 that stores only the fields fundo_data holds
DadosDoFundo_SoPresentes(fields) ==
    LET chave == [nome_fundo |-> "nome", pl |-> "patrimonioLiquido",
                  cota |-> "valorCota", data_referencia |-> "dataReferencia"]
        presentes == {k \in DOMAIN chave : fields[chave[k]] # "absent"}
    IN  [k \in DOMAIN DadosIniciais \cup presentes |->
            IF k \in presentes THEN fields[chave[k]] ELSE DadosIniciais[k]]

\* a variant of lines 56-57 with the two source keys exchanged
DadosDoFundo_Trocado(fields) ==
    [cota |-> GetOrNA(fields, "patrimonioLiquido"),
     pl |-> GetOrNA(fields, "valorCota"),
     data_referencia |-> GetOrNA(fields, "dataReferencia"),
     nome_fundo |-> GetOrNA(fields, "nome")]

\* lines 55-58: the four fields copied under the keys of the report
DadosDoFundo(fields) ==
    [cota |-> GetOrNA(fields, "valorCota"),
     pl |-> GetOrNA(fields, "patrimonioLiquido"),
     data_referencia |-> GetOrNA(fields, "dataReferencia"),
     nome_fundo |-> GetOrNA(fields, "nome")]

\* lines 48-62, json_data being the value json.loads returned
NavegarJson(d) ==
    IF ~IsDict(d.top)
    THEN Extraido(PrefixoErroJson \o AttributeErrorMsg(d.top), DadosIniciais)
    ELSE LET props == GetOrEmptyDict(d.props) IN
    IF ~IsDict(props)
    THEN Extraido(PrefixoErroJson \o AttributeErrorMsg(props), DadosIniciais)
    ELSE LET page_props == GetOrEmptyDict(d.pageProps) IN
    IF ~IsDict(page_props)
    THEN Extraido(PrefixoErroJson \o AttributeErrorMsg(page_props), DadosIniciais)
    ELSE LET fundo_data == GetOrEmptyDict(d.fundo) IN
    IF ~Truthy(fundo_data)
    THEN Extraido(StatusEstrutura, DadosIniciais)
    ELSE IF ~IsDict(fundo_data)
    THEN Extraido(PrefixoErroJson \o AttributeErrorMsg(fundo_data), DadosIniciais)
    ELSE Extraido(StatusSucesso, DadosDoFundo(d.fields))

\* a variant of line 64 that drops str(json_error)
ExtrairDados_SemMotivo(page) ==
    CASE page.script = "absent" -> Extraido(StatusSemScript, DadosIniciais)
      [] page.script \in {"empty", "malformed"} ->
            Extraido(PrefixoErroJson, DadosIniciais)
      [] OTHER -> NavegarJson(page.doc)

\* lines 45-66, page being what BeautifulSoup found in the body
ExtrairDados(page) ==
    CASE page.script = "absent" -> Extraido(StatusSemScript, DadosIniciais)
      [] page.script = "empty" ->
            Extraido(PrefixoErroJson \o NoneJsonErrorMsg, DadosIniciais)
      [] page.script = "malformed" ->
            Extraido(PrefixoErroJson \o page.err, DadosIniciais)
      [] OTHER -> NavegarJson(page.doc)

(***************************************************************************)
(* The adapters.  Each is a try block whose body either returns a dict or  *)
(* raises, and an `except Exception as e` handler that returns a dict.     *)
(* The outcome of a coroutine is Returned(dict) or Raised(str(e)).         *)
(***************************************************************************)
EmptyDict == [k \in {} |-> ""]

Returned(d) == [raised |-> FALSE, exc |-> "", ret |-> d]

Raised(msg) == [raised |-> TRUE, exc |-> msg, ret |-> EmptyDict]

\* session.get raising (a transport exception, or the timeout of the request)
GetRaises(r) == r.kind \in {"exception", "timeout", "cancelled"}

\* a variant of lines 78, 98 and 120 with a bare `except:`
ExceptCatches_Tudo(r) == TRUE

\* `except Exception` (lines 78, 98, 120): asyncio.CancelledError derives from
\* BaseException and passes through the handler
ExceptCatches(r) == ~Cancelled(r)

\* `await response.text()` (line 32) raising: the body cannot be decoded, the
\* timeout of the request expires, or the task is cancelled
TextRaises(page) == page.script \in {"undecodable", "timeout", "cancelled"}

\* line 27
url_anbima(cnpj_arg) == "https://data.anbima.com.br/fundos/" \o Join(cnpj_arg)

\* line 86
url_vortx == "https://www.vortx.com.br/investidor/fundos-de-investimento"

\* line 108
url_cvm == "https://cvmweb.cvm.gov.br/swb/default.asp?sg_sistema=fundosreg"

NotaVortx == "Para extrair PL/Cota da Vórtx, é necessário usar Selenium webdriver."

NotaCvm == "A CVM bloqueia scraping direto de valores nesta URL antiga. Use 'Dados Abertos CVM' para baixar CSVs diários."

\* a variant of line 75 that returns the initial payload with the 404 result
buscar_anbima_try_Payload404(r, url) ==
    IF GetRaises(r) THEN Raised(r.detail)
    ELSE IF r.status = 200
    THEN IF TextRaises(r.page)
         THEN Raised(r.page.err)
         ELSE LET e == ExtrairDados(r.page) IN
              Returned([fonte |-> "Anbima", status |-> e.status, url |-> url,
                        dados_completos |-> e.dados])
    ELSE IF r.status = 404
    THEN Returned([fonte |-> "Anbima", status |-> "Fundo não encontrado (404)",
                   url |-> url, dados_completos |-> DadosIniciais])
    ELSE Returned([fonte |-> "Anbima",
                   status |-> "Erro HTTP " \o IntToStr(r.status), url |-> url])

\* a variant without the 404 branch of lines 74-75
buscar_anbima_try_Sem404(r, url) ==
    IF GetRaises(r) THEN Raised(r.detail)
    ELSE IF r.status = 200
    THEN IF TextRaises(r.page)
         THEN Raised(r.page.err)
         ELSE LET e == ExtrairDados(r.page) IN
              Returned([fonte |-> "Anbima", status |-> e.status, url |-> url,
                        dados_completos |-> e.dados])
    ELSE Returned([fonte |-> "Anbima",
                   status |-> "Erro HTTP " \o IntToStr(r.status), url |-> url])

\* lines 30-77: the body of the try block of buscar_anbima
buscar_anbima_try(r, url) ==
    IF GetRaises(r) THEN Raised(r.detail)
    ELSE IF r.status = 200
    THEN IF TextRaises(r.page)
         THEN Raised(r.page.err)                      \* line 32 raises
         ELSE LET e == ExtrairDados(r.page) IN
              Returned([fonte |-> "Anbima", status |-> e.status, url |-> url,
                        dados_completos |-> e.dados])
    ELSE IF r.status = 404
    THEN Returned([fonte |-> "Anbima", status |-> "Fundo não encontrado (404)",
                   url |-> url])
    ELSE Returned([fonte |-> "Anbima",
                   status |-> "Erro HTTP " \o IntToStr(r.status), url |-> url])

\* a variant without the handler of lines 78-79: the exception leaves the coroutine
buscar_anbima_SemExcept(r, cnpj_arg) ==
    buscar_anbima_try(r, url_anbima(cnpj_arg))

\* lines 23-79; r is what session.get(url, timeout=10) produces
buscar_anbima(r, cnpj_arg) ==
    LET url == url_anbima(cnpj_arg)
        body == buscar_anbima_try(r, url)
    IN  IF body.raised /\ ExceptCatches(r)
        THEN Returned([fonte |-> "Anbima",
                       status |-> "Erro de Conexão: " \o body.exc, url |-> url])
        ELSE body

\* a variant that reads response.status as buscar_cvm does (line 112)
buscar_vortx_ComStatus(r, cnpj_arg) ==
    IF GetRaises(r)
    THEN IF ExceptCatches(r)
         THEN Returned([fonte |-> "Vórtx", status |-> "Erro: " \o r.detail])
         ELSE Raised(r.detail)
    ELSE IF r.status = 200
    THEN Returned([fonte |-> "Vórtx",
                   status |-> StatusPortal,
                   url |-> url_vortx, nota |-> NotaVortx])
    ELSE Returned([fonte |-> "Vórtx", status |-> "Erro " \o IntToStr(r.status)])

\* a variant of line 86 that queries a per-identifier url, as line 27 does
buscar_vortx_UrlComCnpj(r, cnpj_arg) ==
    IF GetRaises(r)
    THEN IF ExceptCatches(r)
         THEN Returned([fonte |-> "Vórtx", status |-> "Erro: " \o r.detail])
         ELSE Raised(r.detail)
    ELSE Returned([fonte |-> "Vórtx",
                   status |-> StatusPortal,
                   url |-> url_vortx \o "/" \o Join(cnpj_arg),
                   nota |-> NotaVortx])

\* lines 81-99; r is what session.get(url, timeout=10) produces
buscar_vortx(r, cnpj_arg) ==
    IF GetRaises(r)
    THEN IF ExceptCatches(r)
         THEN Returned([fonte |-> "Vórtx", status |-> "Erro: " \o r.detail])
         ELSE Raised(r.detail)
    ELSE Returned([fonte |-> "Vórtx",
                   status |-> StatusPortal,
                   url |-> url_vortx, nota |-> NotaVortx])

\* a variant of lines 119 and 121 whose error results carry no "fonte"
buscar_cvm_SemFonte(r, cnpj_arg) ==
    IF GetRaises(r)
    THEN IF ExceptCatches(r)
         THEN Returned([status |-> "Erro: " \o r.detail])
         ELSE Raised(r.detail)
    ELSE IF r.status = 200
    THEN Returned([fonte |-> "CVM", status |-> StatusDisponivel,
                   url |-> url_cvm, nota |-> NotaCvm])
    ELSE Returned([status |-> "Erro " \o IntToStr(r.status)])

\* a variant with the 404 branch of buscar_anbima (line 75) copied in
buscar_cvm_Com404(r, cnpj_arg) ==
    IF GetRaises(r)
    THEN IF ExceptCatches(r)
         THEN Returned([fonte |-> "CVM", status |-> "Erro: " \o r.detail])
         ELSE Raised(r.detail)
    ELSE IF r.status = 200
    THEN Returned([fonte |-> "CVM", status |-> StatusDisponivel,
                   url |-> url_cvm, nota |-> NotaCvm])
    ELSE IF r.status = 404
    THEN Returned([fonte |-> "CVM", status |-> "Fundo não encontrado (404)"])
    ELSE Returned([fonte |-> "CVM", status |-> "Erro " \o IntToStr(r.status)])

\* lines 101-121; r is what session.get(url, timeout=15) produces
buscar_cvm(r, cnpj_arg) ==
    IF GetRaises(r)
    THEN IF ExceptCatches(r)
         THEN Returned([fonte |-> "CVM", status |-> "Erro: " \o r.detail])
         ELSE Raised(r.detail)
    ELSE IF r.status = 200
    THEN Returned([fonte |-> "CVM", status |-> StatusDisponivel,
                   url |-> url_cvm, nota |-> NotaCvm])
    ELSE Returned([fonte |-> "CVM", status |-> "Erro " \o IntToStr(r.status)])

\* the coroutine each task of lines 128-130 runs
Buscar(s, r, cnpj_arg) ==
    CASE s = "Anbima" -> buscar_anbima(r, cnpj_arg)
      [] s = "Vórtx" -> buscar_vortx(r, cnpj_arg)
      [] OTHER -> buscar_cvm(r, cnpj_arg)

\* the timeout= argument of each session.get (lines 30, 89, 111)
TimeoutAnbima == 10
TimeoutVortx == 10
TimeoutCvm == 15

\* a variant in which buscar_cvm is given twice its budget
TimeoutOf_CvmDobrado(s) ==
    CASE s = "Anbima" -> TimeoutAnbima
      [] s = "Vórtx" -> TimeoutVortx
      [] OTHER -> 2 * TimeoutCvm

TimeoutOf(s) ==
    CASE s = "Anbima" -> TimeoutAnbima
      [] s = "Vórtx" -> TimeoutVortx
      [] OTHER -> TimeoutCvm

(***************************************************************************)
(* results_to_dict, lines 140-145: later entries overwrite earlier ones    *)
(* filed under the same key.                                               *)
(***************************************************************************)
\* a variant of line 143 that files each result under its status
FonteOf_Status(res) == IF "status" \in DOMAIN res THEN res.status ELSE "Desconhecida"

\* res.get("fonte", "Desconhecida")
FonteOf(res) == IF "fonte" \in DOMAIN res THEN res.fonte ELSE "Desconhecida"

RECURSIVE results_to_dict_from(_, _)
results_to_dict_from(final, lista_resultados) ==
    IF lista_resultados = <<>> THEN final
    ELSE LET res == Head(lista_resultados)
             fonte == FonteOf(res)
         IN  results_to_dict_from(
                 [k \in DOMAIN final \cup {fonte} |->
                     IF k = fonte THEN res ELSE final[k]],
                 Tail(lista_resultados))

results_to_dict(lista_resultados) ==
    results_to_dict_from(EmptyDict, lista_resultados)

(***************************************************************************)
(* agregar_dados, lines 123-138, and the three tasks it creates.           *)
(*                                                                         *)
(* One action is one callback of the event loop.                           *)
(*                                                                         *)
(* pc: "idle" (the call has not run yet), "gather" (suspended at line      *)
(* 132), "cancelling" (cancellation requested, the call not yet resumed),  *)
(* "closing", "closing_raised", "closing_cancelled" (suspended in the      *)
(* __aexit__ of line 127, on the way to the outcome named), "done"         *)
(* (returned the report), "raised" (the exception of a task left the       *)
(* call), "cancelled" (CancelledError left the call).                      *)
(* task[s].st: "none", "pending" (created and not ended: not run yet when  *)
(* pedidos[s] is empty, awaiting the body when resp[s] is                  *)
(* Response200SemCorpo, awaiting session.get otherwise), "done" (returned  *)
(* a dict), "failed" (ended with an exception), "cancelled"; task[s].at is *)
(* the time at which it ended.                                             *)
(* resp[s]: what session.get and response.text() produced for the task.    *)
(*                                                                         *)
(* Time: now is the time since the tasks were created.  Only the order of  *)
(* events relative to the timeouts matters, so time advances from one      *)
(* pending timeout to the next, and never past a timeout that has not      *)
(* fired.                                                                  *)
(***************************************************************************)
\* the strings the caller passes: formatted, digits only, no digit at all
CnpjInputs == {CnpjFormatado, <<"4", "2">>, <<"-">>}

\* time.strftime("%Y-%m-%d %H:%M:%S") at line 136: the wall clock is the caller's
Timestamps == {"2024-01-31 09:00:00"}

TaskState(st, at) == [st |-> st, at |-> at]

Pending(s) == task[s].st = "pending"

\* lines 27, 86, 108: the url the adapter of s passes to session.get
url_de(s, cnpj_arg) ==
    CASE s = "Anbima" -> url_anbima(cnpj_arg)
      [] s = "Vórtx" -> url_vortx
      [] OTHER -> url_cvm

\* a variant of lines 23-121 in which an adapter files its result in the instance
self_apos_tarefa_Grava(self_res, s, d) ==
    [k \in DOMAIN self_res \cup {s} |-> IF k = s THEN d ELSE self_res[k]]

\* lines 23-121: self.resultados after the task of s has returned d; no line
\* of an adapter assigns the attribute
self_apos_tarefa(self_res, s, d) == self_res

\* a variant of line 135 that stores the normalised identifier
Relatorio_Limpo(cnpj_arg, ts, lista_resultados) ==
    [cnpj_buscado |-> limpar_cnpj(cnpj_arg),
     timestamp |-> ts,
     resultados |-> results_to_dict(lista_resultados)]

\* lines 134-138: the dict agregar_dados returns
Relatorio(cnpj_arg, ts, lista_resultados) ==
    [cnpj_buscado |-> cnpj_arg,
     timestamp |-> ts,
     resultados |-> results_to_dict(lista_resultados)]

\* a variant of line 127 that closes the session after line 138 only
SessaoAoSair_SoNoRetorno(sess, saida) ==
    IF sess = "open" /\ saida = "done" THEN "closed" ELSE sess

\* line 127: `async with` closes the session it opened however the block is
\* left; a call cancelled before its first line has opened none
SessaoAoSair(sess, saida) == IF sess = "open" THEN "closed" ELSE sess

\* how a task ends, given the outcome of its coroutine on r
FimDaTarefa(out, r) ==
    IF ~out.raised THEN "done"
    ELSE IF Cancelled(r) THEN "cancelled" ELSE "failed"

\* the two calls of the two-call model, not started
Calls == {1, 2}

\* a call not started, with argument cnpj_arg; junto records whether the call
\* has been in flight at the same time as the other one
ChamadaIdle(cnpj_arg) ==
    [pc |-> "idle", cnpj |-> cnpj_arg, cnpj_limpo |-> <<>>,
     task |-> [s \in Sources |-> "none"],
     resp |-> [s \in Sources |-> NoResponse],
     result |-> [s \in Sources |-> EmptyDict],
     report |-> EmptyDict,
     junto |-> FALSE]

ChIdle == [c \in Calls |-> ChamadaIdle(<<>>)]

OrchInit ==
    /\ cnpj \in CnpjInputs
    /\ pc = "idle"
    /\ cnpj_limpo = <<>>
    /\ session = "none"
    /\ now = 0
    /\ task = [s \in Sources |-> TaskState("none", 0)]
    /\ resp = [s \in Sources |-> NoResponse]
    /\ result = [s \in Sources |-> EmptyDict]
    /\ report = EmptyDict
    /\ ordem = <<>>
    /\ pedidos = [s \in Sources |-> <<>>]

NormIdle ==
    /\ n_in = <<>>
    /\ n_out = <<>>
    /\ n_twice = <<>>
    /\ n_pc = 0

\* line 21, and no second call
DuasIdle ==
    /\ self_resultados = EmptyDict
    /\ ch = ChIdle

Init == OrchInit /\ NormIdle /\ DuasIdle

\* lines 124-132, up to the await of gather: normalise, open the session,
\* create the three tasks; create_task only schedules them
Iniciar ==
    /\ pc = "idle"
    /\ cnpj_limpo' = limpar_cnpj(cnpj)
    /\ session' = "open"
    /\ task' = [s \in Sources |-> TaskState("pending", 0)]
    /\ pc' = "gather"
    /\ UNCHANGED <<cnpj, now, resp, result, report, ordem, pedidos,
                   self_resultados, norm_vars, duas_vars>>

\* lines 128-130: the order in which the tasks are created, which is the order
\* in which the event loop runs their first steps
OrdemDeCriacao == <<"Anbima", "Vórtx", "CVM">>

Posicao(s) == CHOOSE i \in DOMAIN OrdemDeCriacao : OrdemDeCriacao[i] = s

\* the task of s has passed its url to session.get
Pediu(s) == pedidos[s] # <<>>

\* the task of s has its 200 and is suspended at line 32
EsperaCorpo(s) == Pending(s) /\ resp[s] = Response200SemCorpo

\* the first step of the task of s: lines 27-30, 86-89, 108-111, up to the
\* await inside session.get
Pedir(s) ==
    /\ pc = "gather"
    /\ Pending(s)
    /\ ~Pediu(s)
    /\ \A t \in Sources : Posicao(t) < Posicao(s) => Pediu(t)
    /\ pedidos' = [pedidos EXCEPT ![s] = Append(@, url_de(s, cnpj_limpo))]
    /\ UNCHANGED <<cnpj, pc, cnpj_limpo, session, now, task, resp, result,
                   report, ordem, self_resultados, norm_vars, duas_vars>>

\* task s runs its coroutine to the end on r, the outcome of its exchange
Concluir(s, r) ==
    LET out == Buscar(s, r, cnpj_limpo) IN
    /\ resp' = [resp EXCEPT ![s] = r]
    /\ task' = [task EXCEPT ![s] = TaskState(FimDaTarefa(out, r), now)]
    /\ result' = [result EXCEPT ![s] = out.ret]
    /\ ordem' = Append(ordem, s)
    /\ self_resultados' = self_apos_tarefa(self_resultados, s, out.ret)
    /\ UNCHANGED <<cnpj, pc, cnpj_limpo, session, now, report, pedidos,
                   norm_vars, duas_vars>>

\* the provider of s answers (or the transport fails) before the timeout, and
\* the task runs to its end in the same callback: for a 200 of Anbima the body
\* is at hand and line 32 does not suspend
Responder(s) ==
    /\ pc = "gather"
    /\ Pending(s)
    /\ \A t \in Sources : Pending(t) => Pediu(t)
    /\ resp[s] = NoResponse
    /\ now < TimeoutOf(s)
    /\ \E r \in Answers(s) : Concluir(s, r)

\* Anbima answers 200 and the task suspends at line 32, the body not yet read
ReceberCabecalho(s) ==
    /\ pc = "gather"
    /\ s = "Anbima"
    /\ Pending(s)
    /\ \A t \in Sources : Pending(t) => Pediu(t)
    /\ resp[s] = NoResponse
    /\ now < TimeoutOf(s)
    /\ resp' = [resp EXCEPT ![s] = Response200SemCorpo]
    /\ UNCHANGED <<cnpj, pc, cnpj_limpo, session, now, task, result, report,
                   ordem, pedidos, self_resultados, norm_vars, duas_vars>>

\* the body arrives before the timeout and lines 32-73 run
LerCorpo(s) ==
    /\ pc = "gather"
    /\ EsperaCorpo(s)
    /\ now < TimeoutOf(s)
    /\ \E p \in Pages : Concluir(s, Response("http", 200, p, ""))

\* the timeout of the session.get of s expires, at line 30/89/111 or while
\* line 32 reads the body: asyncio.TimeoutError
Expirar(s) ==
    /\ pc = "gather"
    /\ Pending(s)
    /\ Pediu(s)
    /\ now = TimeoutOf(s)
    /\ Concluir(s, IF EsperaCorpo(s) THEN Response200Timeout ELSE TimeoutResponse)

\* time passes until the earliest pending timeout
Avancar ==
    /\ pc = "gather"
    /\ \E s \in Sources : Pending(s)
    /\ \A s \in Sources : Pending(s) => Pediu(s) /\ now < TimeoutOf(s)
    /\ \E s \in Sources :
        /\ Pending(s)
        /\ \A t \in Sources : Pending(t) => TimeoutOf(s) <= TimeoutOf(t)
        /\ now' = TimeoutOf(s)
    /\ UNCHANGED <<cnpj, pc, cnpj_limpo, session, task, resp, result, report,
                   ordem, pedidos, self_resultados, norm_vars, duas_vars>>

\* the caller's task.cancel() (or its outer timeout): a request only; the
\* call and its children are resumed with CancelledError in later callbacks
Cancelar ==
    /\ pc \in {"idle", "gather", "closing", "closing_raised"}
    /\ pc' = IF pc \in {"idle", "gather"} THEN "cancelling"
             ELSE "closing_cancelled"
    /\ UNCHANGED <<cnpj, cnpj_limpo, session, now, task, resp, result, report,
                   ordem, pedidos, self_resultados, norm_vars, duas_vars>>

\* what a pending task of s holds when CancelledError is thrown into it
RespAoCancelar(s) ==
    IF ~Pediu(s) THEN resp[s]                   \* the coroutine never started
    ELSE IF EsperaCorpo(s) THEN Response200Cancelled
    ELSE CancelResponse

\* gather has cancelled its children: CancelledError is thrown into the task
\* of s, passes the `except Exception` handler and ends the task
CancelarTarefa(s) ==
    /\ pc = "cancelling"
    /\ Pending(s)
    /\ LET out == Buscar(s, CancelResponse, cnpj_limpo) IN
        /\ resp' = [resp EXCEPT ![s] = RespAoCancelar(s)]
        /\ task' = [task EXCEPT
                        ![s] = TaskState(FimDaTarefa(out, CancelResponse), now)]
        /\ result' = [result EXCEPT ![s] = out.ret]
    /\ UNCHANGED <<cnpj, pc, cnpj_limpo, session, now, report, ordem, pedidos,
                   self_resultados, norm_vars, duas_vars>>

\* line 132: gather yields the results in the order of its arguments
Resultados == <<result["Anbima"], result["Vórtx"], result["CVM"]>>

\* the pc of a call suspended in __aexit__ on its way to outcome saida
ClosingDe(saida) ==
    CASE saida = "done" -> "closing"
      [] saida = "raised" -> "closing_raised"
      [] OTHER -> "closing_cancelled"

\* the outcome a call suspended in __aexit__ is on its way to
SaidaDe(p) ==
    CASE p = "closing" -> "done"
      [] p = "closing_raised" -> "raised"
      [] OTHER -> "cancelled"

\* the call ends with outcome saida: the session it opened is closed, and the
\* report (lines 134-138) is returned if the block was left by `return`
Sair(saida) ==
    /\ pc' = saida
    /\ session' = SessaoAoSair(session, saida)
    /\ IF saida = "done"
       THEN \E ts \in Timestamps : report' = Relatorio(cnpj, ts, Resultados)
       ELSE report' = report

\* lines 132-138: gather resumes the call, with the list of results, with the
\* exception of a task, or with CancelledError once its cancelled children
\* have ended; the block of line 127 is left, and session.close() either
\* completes in the same callback or suspends the call in __aexit__
Retornar ==
    /\ \/ /\ pc = "gather"
          /\ \/ \A s \in Sources : task[s].st = "done"
             \/ \E s \in Sources : task[s].st = "failed"
       \/ /\ pc = "cancelling"
          /\ \A s \in Sources : ~Pending(s)
    /\ LET saida == IF pc = "cancelling" THEN "cancelled"
                    ELSE IF \E s \in Sources : task[s].st = "failed" THEN "raised"
                    ELSE "done"
       IN  \/ Sair(saida)
           \/ /\ session = "open"
              /\ pc' = ClosingDe(saida)
              /\ UNCHANGED <<session, report>>
    /\ UNCHANGED <<cnpj, cnpj_limpo, now, task, resp, result, ordem, pedidos,
                   self_resultados, norm_vars, duas_vars>>

\* session.close() completes (or CancelledError is thrown into it) and the
\* call ends
Fechar ==
    /\ pc \in {"closing", "closing_raised", "closing_cancelled"}
    /\ Sair(SaidaDe(pc))
    /\ UNCHANGED <<cnpj, cnpj_limpo, now, task, resp, result, ordem, pedidos,
                   self_resultados, norm_vars, duas_vars>>

Next ==
    \/ Iniciar
    \/ \E s \in Sources : Pedir(s)
    \/ \E s \in Sources : Responder(s)
    \/ \E s \in Sources : ReceberCabecalho(s)
    \/ \E s \in Sources : LerCorpo(s)
    \/ \E s \in Sources : Expirar(s)
    \/ Avancar
    \/ Cancelar
    \/ \E s \in Sources : CancelarTarefa(s)
    \/ Retornar
    \/ Fechar

Spec == Init /\ [][Next]_vars

(***************************************************************************)
(* limpar_cnpj applied to strings drawn from a bounded set, once and then  *)
(* again to its own result.                                                *)
(***************************************************************************)
Alphabet == {"0", "7", ".", "/", "-", "a", " "}

RECURSIVE StringsUpTo(_)
StringsUpTo(n) ==
    IF n = 0 THEN {<<>>}
    ELSE LET shorter == StringsUpTo(n - 1) IN
         shorter \cup {Append(w, c) : w \in shorter, c \in Alphabet}

NormInputs == StringsUpTo(MaxLen) \cup {CnpjFormatado}

OrchIdle ==
    /\ cnpj = <<>>
    /\ pc = "idle"
    /\ cnpj_limpo = <<>>
    /\ session = "none"
    /\ now = 0
    /\ task = [s \in Sources |-> TaskState("none", 0)]
    /\ resp = [s \in Sources |-> NoResponse]
    /\ result = [s \in Sources |-> EmptyDict]
    /\ report = EmptyDict
    /\ ordem = <<>>
    /\ pedidos = [s \in Sources |-> <<>>]

NormInit ==
    /\ OrchIdle
    /\ DuasIdle
    /\ n_in \in NormInputs
    /\ n_out = <<>>
    /\ n_twice = <<>>
    /\ n_pc = 0

Limpar ==
    /\ n_pc = 0
    /\ n_out' = limpar_cnpj(n_in)
    /\ n_pc' = 1
    /\ UNCHANGED <<n_in, n_twice, orch_vars, self_resultados, duas_vars>>

LimparDeNovo ==
    /\ n_pc = 1
    /\ n_twice' = limpar_cnpj(n_out)
    /\ n_pc' = 2
    /\ UNCHANGED <<n_in, n_out, orch_vars, self_resultados, duas_vars>>

NormNext == Limpar \/ LimparDeNovo

SpecNorm == NormInit /\ [][NormNext]_vars

(***************************************************************************)
(* Two agregar_dados calls on one BuscadorFundos instance, their steps     *)
(* interleaved by the event loop.  Each call has its own locals (session,  *)
(* tasks, resultados); the instance holds self.resultados.  Time, the      *)
(* urls requested and the session are left out: a timeout is one of the    *)
(* outcomes an exchange can have, and ch[c].pc is "idle", "gather" or      *)
(* "done".                                                                 *)
(***************************************************************************)
DuasInputs == {CnpjFormatado, <<"4", "2">>}

\* a complete hydration document
DocCompleto ==
    Doc("obj", "obj", "obj", "obj",
        [k \in FieldKeys |-> IF k = "nome" THEN "null" ELSE "1.5"])

\* the outcomes of session.get drawn in the two-call model
AnswersDuas(s) ==
    {TimeoutResponse}
    \cup {Response("exception", 0, NoPage, d) : d \in TransportErrors}
    \cup IF s = "Anbima"
         THEN {Response("http", 200, Page("json", "", DocCompleto), ""),
               Response("http", 404, NoPage, "")}
         ELSE IF s = "CVM"
         THEN {Response("http", 200, NoPage, ""), Response("http", 503, NoPage, "")}
         ELSE {Response("http", 200, NoPage, "")}

DuasInit ==
    /\ OrchIdle
    /\ NormIdle
    /\ self_resultados = EmptyDict
    /\ ch \in [Calls -> {ChamadaIdle(c) : c \in DuasInputs}]

EmVoo(c) == ch[c].pc = "gather"

\* lines 124-130 of call c
IniciarCh(c) ==
    /\ ch[c].pc = "idle"
    /\ ch' = [d \in Calls |->
                IF d = c
                THEN [ch[c] EXCEPT
                        !.pc = "gather",
                        !.cnpj_limpo = limpar_cnpj(ch[c].cnpj),
                        !.task = [s \in Sources |-> "pending"],
                        !.junto = \E o \in Calls \ {c} : EmVoo(o)]
                ELSE [ch[d] EXCEPT !.junto = ch[d].junto \/ EmVoo(d)]]
    /\ UNCHANGED <<self_resultados, orch_vars, norm_vars>>

\* Anbima answers 200 to call c and the task suspends at line 32
ReceberCabecalhoCh(c) ==
    /\ ch[c].task["Anbima"] = "pending"
    /\ ch[c].resp["Anbima"] = NoResponse
    /\ ch' = [ch EXCEPT ![c].resp["Anbima"] = Response200SemCorpo]
    /\ UNCHANGED <<self_resultados, orch_vars, norm_vars>>

\* the outcomes the exchange of task s of call c can still have
DesfechosCh(c, s) ==
    IF ch[c].resp[s] = Response200SemCorpo
    THEN {r \in AnswersDuas(s) : r.kind = "http" /\ r.status = 200}
         \cup {Response200Timeout}
    ELSE AnswersDuas(s)

\* task s of call c runs its coroutine to the end
ConcluirCh(c, s) ==
    /\ ch[c].task[s] = "pending"
    /\ \E r \in DesfechosCh(c, s) :
        LET out == Buscar(s, r, ch[c].cnpj_limpo) IN
        /\ ch' = [ch EXCEPT ![c].resp[s] = r,
                            ![c].task[s] = FimDaTarefa(out, r),
                            ![c].result[s] = out.ret]
        /\ self_resultados' = self_apos_tarefa(self_resultados, s, out.ret)
    /\ UNCHANGED <<orch_vars, norm_vars>>

\* lines 132-138 of call c
RetornarCh(c) ==
    /\ ch[c].pc = "gather"
    /\ \A s \in Sources : ch[c].task[s] = "done"
    /\ \E ts \in Timestamps :
        ch' = [ch EXCEPT
                ![c].pc = "done",
                ![c].report =
                    Relatorio(ch[c].cnpj, ts,
                              <<ch[c].result["Anbima"], ch[c].result["Vórtx"],
                                ch[c].result["CVM"]>>)]
    /\ UNCHANGED <<self_resultados, orch_vars, norm_vars>>

DuasNext ==
    \/ \E c \in Calls : IniciarCh(c)
    \/ \E c \in Calls : ReceberCabecalhoCh(c)
    \/ \E c \in Calls, s \in Sources : ConcluirCh(c, s)
    \/ \E c \in Calls : RetornarCh(c)

SpecDuas == DuasInit /\ [][DuasNext]_vars

(***************************************************************************)
(* Properties.                                                             *)
(***************************************************************************)
Ended(s) == task[s].st \in {"done", "failed"}

\* the statuses with which an adapter reports that its fetch went well
StatusesDeExito == {StatusSucesso, StatusPortal, StatusDisponivel}

\* the fetch of s failed: session.get raised, or the adapter read the answer
\* as a failure (buscar_vortx never reads response.status, lines 89-97)
Falhou(s, r) ==
    \/ r.kind \in {"exception", "timeout"}
    \/ /\ r.kind = "http"
       /\ s # "Vórtx"
       /\ r.status # 200
    \/ /\ r.kind = "http"
       /\ s = "Anbima"
       /\ r.status = 200
       /\ r.page.script # "json"

\* C1: whenever agregar_dados has returned a report, its 'resultados' mapping
\* has exactly the keys Anbima, Vórtx and CVM, and the entry under each key is
\* the result of that source, whatever the three fetches produced.
C1_TresFontes ==
    pc = "done" =>
        /\ DOMAIN report.resultados = Sources
        /\ Cardinality(DOMAIN report.resultados) = 3
        /\ \A s \in Sources : report.resultados[s].fonte = s

\* C1 witness: a report was returned although every fetch failed, each in its
\* own way.
C1_Witness ==
    /\ pc = "done"
    /\ resp["Anbima"].kind = "http" /\ resp["Anbima"].status = 503
    /\ resp["Vórtx"].kind = "exception"
    /\ resp["CVM"].kind = "timeout"
    /\ DOMAIN report.resultados = Sources

\* C2: a failed fetch never makes agregar_dados raise and never ends a task
\* with an exception; the failing task returns a result with a failure
\* status; and in the report the entry of every source is the result its own
\* adapter gives for its own answer, whatever happened to the others.
C2_FalhasIsoladas ==
    /\ pc # "raised"
    /\ \A s \in Sources : task[s].st # "failed"
    /\ \A s \in Sources :
        (task[s].st = "done" /\ Falhou(s, resp[s])) =>
            /\ "status" \in DOMAIN result[s]
            /\ result[s].status \notin StatusesDeExito
    /\ pc = "done" =>
        \A t \in Sources :
            /\ task[t].st = "done"
            /\ t \in DOMAIN report.resultados
            /\ report.resultados[t] = Buscar(t, resp[t], cnpj_limpo).ret

\* C2 witness: the call returned with CVM failed on a transport exception and
\* Anbima unparsable, while Vórtx kept the entry of a successful fetch.
C2_Witness ==
    /\ pc = "done"
    /\ resp["CVM"].kind = "exception"
    /\ resp["Anbima"].kind = "http" /\ resp["Anbima"].status = 200
    /\ resp["Anbima"].page.script = "malformed"
    /\ resp["Vórtx"].kind = "http" /\ resp["Vórtx"].status = 200
    /\ report.resultados["Vórtx"].status = StatusPortal
    /\ report.resultados["CVM"].status \notin StatusesDeExito

\* the status each adapter gives when session.get raises with message msg
StatusDeConexao(s, msg) ==
    IF s = "Anbima" THEN "Erro de Conexão: " \o msg ELSE "Erro: " \o msg

\* the exchange of the task did not complete within the budget of its
\* session.get: no answer, or the 200 of Anbima without its body
TimedOut(r) == r.kind = "timeout" \/ r = Response200Timeout

\* C3: a task whose provider never answers (or never completes the body of
\* its answer) ends when its own budget (10 for Anbima and Vórtx, 15 for CVM)
\* has elapsed, with the connection-error status of its adapter; no task is
\* pending, and the call has ended, no later than 15, the largest of the
\* three budgets.
C3_Prazos ==
    /\ \A s \in Sources :
        TimedOut(resp[s]) =>
            /\ task[s].st = "done"
            /\ task[s].at = (IF s = "CVM" THEN 15 ELSE 10)
            /\ result[s].status = StatusDeConexao(s, "")
    /\ \A s \in Sources : Ended(s) => task[s].at <= 15
    /\ \A s \in Sources : Pending(s) => now <= (IF s = "CVM" THEN 15 ELSE 10)
    /\ now <= 15
    /\ (now = 15 /\ pc = "gather") => \A s \in Sources : s # "CVM" => Ended(s)

\* C3 witness: the call returned at time 15 after all three providers stayed
\* silent.
C3_Witness ==
    /\ pc = "done"
    /\ now = 15
    /\ \A s \in Sources : resp[s].kind = "timeout"
    /\ task["Anbima"].at = 10 /\ task["Vórtx"].at = 10 /\ task["CVM"].at = 15

HasPayload(d) == "dados_completos" \in DOMAIN d

\* the answer of Anbima was an HTTP 200 whose body could be read
Anbima200(r) == r.kind = "http" /\ r.status = 200 /\ ~TextRaises(r.page)

\* C4 as stated: in every result an adapter returned, the source name is
\* populated and dados_completos is present only when the status is Success.
C4_PayloadSoComSucesso ==
    \A s \in Sources :
        task[s].st = "done" =>
            /\ "fonte" \in DOMAIN result[s]
            /\ result[s].fonte = s
            /\ HasPayload(result[s]) => result[s].status = StatusSucesso

\* C4 amended: in every result an adapter returned, the source name is
\* populated; dados_completos is present exactly in the results buscar_anbima
\* returns for an HTTP 200 answer (lines 68-73), whatever the extraction
\* status; and when that status is not Success the payload holds only the
\* three initial sentinel values.
C4_PayloadEmTodo200 ==
    \A s \in Sources :
        task[s].st = "done" =>
            /\ "fonte" \in DOMAIN result[s]
            /\ result[s].fonte = s
            /\ HasPayload(result[s]) <=> (s = "Anbima" /\ Anbima200(resp[s]))
            /\ result[s].status = StatusSucesso => HasPayload(result[s])
            /\ (HasPayload(result[s]) /\ result[s].status # StatusSucesso) =>
                    result[s].dados_completos = DadosIniciais

\* C4 witness: buscar_anbima returned a payload of sentinels with the status
\* of a page that has no hydration script.
C4_Witness ==
    /\ task["Anbima"].st = "done"
    /\ result["Anbima"].status = StatusSemScript
    /\ HasPayload(result["Anbima"])
    /\ result["Anbima"].dados_completos = DadosIniciais

\* the url each adapter queries
UrlConsultada(s) ==
    CASE s = "Anbima" -> url_anbima(cnpj_limpo)
      [] s = "Vórtx" -> url_vortx
      [] OTHER -> url_cvm

\* C5 as stated: every result an adapter returned carries the url that was
\* queried, on every return path, the error paths included.
C5_UrlEmTodoResultado ==
    \A s \in Sources :
        task[s].st = "done" =>
            /\ "url" \in DOMAIN result[s]
            /\ result[s].url = UrlConsultada(s)

\* the hydration block is valid JSON whose props.pageProps.fundo is a dict
\* holding all four fields
FundoCompleto(r) ==
    /\ Anbima200(r)
    /\ r.page.script = "json"
    /\ r.page.doc.top = "obj"
    /\ r.page.doc.props = "obj"
    /\ r.page.doc.pageProps = "obj"
    /\ r.page.doc.fundo = "obj"
    /\ \A k \in FieldKeys : r.page.doc.fields[k] # "absent"

\* C6: for an HTTP 200 answer whose hydration block holds all four fields of
\* props.pageProps.fundo, buscar_anbima returns the Success status and a
\* payload whose name, net asset value, share price and reference date are
\* the values of the block.
C6_ExtracaoCompleta ==
    (task["Anbima"].st = "done" /\ FundoCompleto(resp["Anbima"])) =>
        LET d == result["Anbima"]
            f == resp["Anbima"].page.doc.fields
        IN  /\ d.status = StatusSucesso
            /\ HasPayload(d)
            /\ DOMAIN d.dados_completos =
                    {"nome_fundo", "pl", "cota", "data_referencia"}
            /\ d.dados_completos.nome_fundo = f["nome"]
            /\ d.dados_completos.pl = f["patrimonioLiquido"]
            /\ d.dados_completos.cota = f["valorCota"]
            /\ d.dados_completos.data_referencia = f["dataReferencia"]

\* C6 witness: a complete block whose net asset value and share price differ
\* was extracted.
C6_Witness ==
    /\ task["Anbima"].st = "done"
    /\ FundoCompleto(resp["Anbima"])
    /\ resp["Anbima"].page.doc.fields["patrimonioLiquido"] = "1.5"
    /\ resp["Anbima"].page.doc.fields["valorCota"] = "null"
    /\ result["Anbima"].dados_completos.pl = "1.5"
    /\ result["Anbima"].dados_completos.cota = "null"

\* the hydration block parses, and the path props/pageProps/fundo does not
\* end in a dict with keys: some level is missing, empty or not a dict
SemFundo(r) ==
    /\ Anbima200(r)
    /\ r.page.script = "json"
    /\ ~ /\ r.page.doc.top = "obj"
         /\ r.page.doc.props = "obj"
         /\ r.page.doc.pageProps = "obj"
         /\ r.page.doc.fundo = "obj"

\* C7: when the hydration block parses but holds no 'fundo' object,
\* buscar_anbima returns (it does not raise) a status other than Success and
\* a payload that holds only the sentinel values.
C7_SemFundoDegrada ==
    LET s == "Anbima" IN
        (Ended(s) /\ SemFundo(resp[s])) =>
            /\ task[s].st = "done"
            /\ result[s].fonte = "Anbima"
            /\ result[s].status # StatusSucesso
            /\ result[s].status \in
                    {StatusEstrutura} \cup
                    {PrefixoErroJson \o AttributeErrorMsg(v) : v \in NonDictValues}
            /\ result[s].dados_completos = DadosIniciais

\* C7 witness: the block had props and pageProps but no 'fundo' key, and the
\* adapter returned the structure-changed status.
C7_Witness ==
    /\ task["Anbima"].st = "done"
    /\ SemFundo(resp["Anbima"])
    /\ resp["Anbima"].page.doc.pageProps = "obj"
    /\ resp["Anbima"].page.doc.fundo = "absent"
    /\ result["Anbima"].status = StatusEstrutura

\* json.loads raises on the text of the hydration script
JsonIlegivel(r) ==
    Anbima200(r) /\ r.page.script \in {"malformed", "empty"}

\* C8: when the hydration block cannot be parsed as JSON, buscar_anbima
\* returns the parse-error status followed by a non-empty reason, the call
\* does not raise, it can return once the three tasks have ended, and the
\* report it returns holds the Vórtx and CVM entries.
C8_JsonIlegivel ==
    (Ended("Anbima") /\ JsonIlegivel(resp["Anbima"])) =>
        /\ task["Anbima"].st = "done"
        /\ \E motivo \in JsonErrors \cup {NoneJsonErrorMsg} :
            /\ Len(motivo) > 0
            /\ result["Anbima"].status = PrefixoErroJson \o motivo
        /\ Len(result["Anbima"].status) > Len(PrefixoErroJson)
        /\ pc # "raised"
        /\ (pc = "gather" /\ \A s \in Sources : Ended(s)) => ENABLED Retornar
        /\ pc = "done" =>
            /\ {"Vórtx", "CVM"} \subseteq DOMAIN report.resultados
            /\ report.resultados["Vórtx"] = result["Vórtx"]
            /\ report.resultados["CVM"] = result["CVM"]
            /\ report.resultados["Vórtx"].fonte = "Vórtx"
            /\ report.resultados["CVM"].fonte = "CVM"

\* C8 witness: the call returned a report after Anbima served an unparsable
\* block, with Vórtx and CVM answering 200.
C8_Witness ==
    /\ pc = "done"
    /\ resp["Anbima"].kind = "http" /\ resp["Anbima"].page.script = "malformed"
    /\ resp["Vórtx"].kind = "http" /\ resp["CVM"].kind = "http"
    /\ resp["CVM"].status = 200
    /\ report.resultados["CVM"].status = StatusDisponivel
    /\ report.resultados["Vórtx"].status = StatusPortal

\* C9: buscar_cvm gives HTTP 200 the 'system available' status with a note,
\* and every other HTTP status s the error status that carries s (503 gives
\* "Erro 503"); in the second case the report holds the Anbima and Vórtx
\* entries, each the result of its own adapter.
C9_StatusCvm ==
    (task["CVM"].st = "done" /\ resp["CVM"].kind = "http") =>
        LET st == resp["CVM"].status
            d == result["CVM"]
        IN  /\ st = 200 =>
                /\ d.status = StatusDisponivel
                /\ "nota" \in DOMAIN d
                /\ Len(d.nota) > 0
            /\ st # 200 =>
                /\ d.status = "Erro " \o IntToStr(st)
                /\ st = 503 => d.status = "Erro 503"
                /\ st = 404 => d.status = "Erro 404"
                /\ pc = "done" =>
                    \A t \in {"Anbima", "Vórtx"} :
                        /\ t \in DOMAIN report.resultados
                        /\ report.resultados[t] = result[t]
                        /\ report.resultados[t] =
                                Buscar(t, resp[t], cnpj_limpo).ret

\* C9 witness: CVM answered 503 and the report holds the successful Anbima
\* and Vórtx entries next to "Erro 503".
C9_Witness ==
    /\ pc = "done"
    /\ resp["CVM"].kind = "http" /\ resp["CVM"].status = 503
    /\ report.resultados["CVM"].status = "Erro 503"
    /\ report.resultados["Anbima"].status = StatusSucesso
    /\ report.resultados["Vórtx"].status = StatusPortal

IsDigitChar(c) == c \in {"0", "1", "2", "3", "4", "5", "6", "7", "8", "9"}

\* C10: limpar_cnpj(s) is s with every non-digit character removed and the
\* order of the digits kept; applying it to its own result changes nothing;
\* and "00.000.000/0000-00" gives "00000000000000".
C10_LimparCnpj ==
    /\ n_pc >= 1 =>
        /\ n_out = SelectSeq(n_in, IsDigitChar)
        /\ \A i \in 1..Len(n_out) : IsDigitChar(n_out[i])
        /\ n_in = CnpjFormatado => n_out = CnpjSoDigitos
    /\ n_pc = 2 => n_twice = n_out

\* C10 witness: the formatted identifier was normalised twice.
C10_Witness ==
    /\ n_pc = 2
    /\ n_in = CnpjFormatado
    /\ n_out = CnpjSoDigitos
    /\ n_twice = CnpjSoDigitos

\* C11: the report is the same for every order in which the three tasks end:
\* its mapping is the one that files, under each source name, the result of
\* that source's adapter on that source's own answer.
C11_OrdemIrrelevante ==
    pc = "done" =>
        /\ Len(ordem) = 3
        /\ {ordem[i] : i \in 1..3} = Sources
        /\ report.resultados =
                [s \in Sources |-> Buscar(s, resp[s], cnpj_limpo).ret]

\* C11 witness: the report was returned after the tasks ended in the reverse
\* of the order in which gather lists them.
C11_Witness ==
    /\ pc = "done"
    /\ ordem = <<"CVM", "Vórtx", "Anbima">>
    /\ report.resultados["Anbima"].status = StatusSucesso
    /\ report.resultados["CVM"].status = "Erro 404"

CallEnded == pc \in {"done", "raised", "cancelled"}

\* C12: the session is opened when the call starts, open while the call is
\* suspended at gather or in the exit of the `async with` block, and closed
\* whenever a call that opened it has ended, by returning or by raising (a
\* call cancelled before its first line opened none); a task exists and is
\* pending only while the session is open.
C12_SessaoEscopo ==
    LET Criadas == \A s \in Sources : task[s].st # "none" IN
    /\ pc = "idle" => session = "none"
    /\ pc = "gather" => session = "open"
    /\ pc = "cancelling" => session = (IF Criadas THEN "open" ELSE "none")
    /\ pc \in {"closing", "closing_raised", "closing_cancelled"} =>
            /\ session = "open"
            /\ \A s \in Sources : task[s].st \in {"done", "failed", "cancelled"}
    /\ CallEnded => session = (IF Criadas THEN "closed" ELSE "none")
    /\ \A s \in Sources : Pending(s) => session = "open"
    /\ session = "closed" =>
            /\ CallEnded
            /\ \A s \in Sources : task[s].st \in {"done", "cancelled"}

\* C12 witness: the call ended by raising CancelledError and the session is
\* closed.
C12_Witness ==
    /\ pc = "cancelled"
    /\ session = "closed"
    /\ task["CVM"].st = "cancelled"

CancelRequested == pc \in {"cancelling", "closing_cancelled"}

\* a step of a cancelled call: every task in flight stays pending or ends
\* cancelled, no other task changes, and the call stays cancelled or ends
\* with CancelledError, without a report
C13_Passo ==
    CancelRequested =>
        /\ pc' \in {"cancelling", "closing_cancelled", "cancelled"}
        /\ report' = EmptyDict
        /\ \A s \in Sources :
            IF Pending(s)
            THEN \/ task'[s] = task[s]
                 \/ task'[s].st = "cancelled" /\ result'[s] = EmptyDict
            ELSE task'[s] = task[s] /\ result'[s] = result[s]

\* C13: once the caller has cancelled the call, each task in flight is
\* resumed with CancelledError and ends cancelled, without a result; the call
\* can only end, with CancelledError, once no task is in flight; and no
\* report exists then or later.  A call that returned a report had no task
\* cancelled.
C13_Cancelamento ==
    /\ [](/\ pc \in {"cancelling", "closing_cancelled", "cancelled"} =>
                report = EmptyDict
          /\ pc = "cancelling" =>
                /\ \A s \in Sources : Pending(s) => ENABLED CancelarTarefa(s)
                /\ (\A s \in Sources : ~Pending(s)) <=> ENABLED Retornar
          /\ pc = "closing_cancelled" => ENABLED Fechar
          /\ pc \in {"closing_cancelled", "cancelled"} =>
                \A s \in Sources : task[s].st \in {"none", "done", "cancelled"}
          /\ \A s \in Sources :
                task[s].st = "cancelled" =>
                    /\ result[s] = EmptyDict
                    /\ pc \in {"cancelling", "closing_cancelled", "cancelled"}
          /\ pc = "done" => \A s \in Sources : task[s].st = "done")
    /\ [][C13_Passo]_vars

\* C13 witness: the call was cancelled while Anbima was reading its body and
\* CVM awaited its answer, Vórtx having already returned; both tasks ended
\* cancelled and the call ended with CancelledError and no report.
C13_Witness ==
    /\ pc = "cancelled"
    /\ resp["Anbima"] = Response200Cancelled /\ task["Anbima"].st = "cancelled"
    /\ resp["CVM"].kind = "cancelled" /\ task["CVM"].st = "cancelled"
    /\ task["Vórtx"].st = "done" /\ result["Vórtx"].status = StatusPortal
    /\ report = EmptyDict

\* the classifications of buscar_anbima, each the set of its status strings
ClassesAnbima ==
    [nao_encontrado |-> {"Fundo não encontrado (404)"},
     erro_http |-> {"Erro HTTP 503"},
     erro_conexao |-> {"Erro de Conexão: " \o m :
                        m \in TransportErrors \cup {"", UnicodeErrorMsg}},
     sem_script |-> {StatusSemScript},
     extracao |-> {StatusSucesso, StatusEstrutura} \cup
                  {PrefixoErroJson \o m :
                        m \in JsonErrors \cup {NoneJsonErrorMsg} \cup
                              {AttributeErrorMsg(v) : v \in NonDictValues}}]

ClassesDe(status) == {c \in DOMAIN ClassesAnbima : status \in ClassesAnbima[c]}

\* C14: buscar_anbima gives HTTP 404 'not found', any other status than 200
\* and 404 the HTTP error carrying the code, a transport exception the
\* connection error carrying the detail, and HTTP 200 without hydration
\* script 'hidden data block not found'; every result it returns falls in
\* exactly one of these classifications or the 200-path extraction statuses.
C14_ClassesAnbima ==
    task["Anbima"].st = "done" =>
        LET r == resp["Anbima"]
            d == result["Anbima"]
        IN  /\ (r.kind = "http" /\ r.status = 404) =>
                    d.status = "Fundo não encontrado (404)"
            /\ (r.kind = "http" /\ r.status \notin {200, 404}) =>
                    /\ d.status = "Erro HTTP " \o IntToStr(r.status)
                    /\ r.status = 503 => d.status = "Erro HTTP 503"
            /\ r.kind \in {"exception", "timeout"} =>
                    d.status = "Erro de Conexão: " \o r.detail
            /\ (r.kind = "http" /\ r.status = 200 /\ TextRaises(r.page)) =>
                    d.status = "Erro de Conexão: " \o r.page.err
            /\ (Anbima200(r) /\ r.page.script = "absent") =>
                    d.status = StatusSemScript
            /\ Cardinality(ClassesDe(d.status)) = 1

\* C14 witness: buscar_anbima returned the not-found status for a 404.
C14_Witness ==
    /\ task["Anbima"].st = "done"
    /\ resp["Anbima"].kind = "http" /\ resp["Anbima"].status = 404
    /\ ClassesDe(result["Anbima"].status) = {"nao_encontrado"}

\* props.pageProps.fundo is a dict with keys, some of the four fields missing
FundoParcial(r) ==
    /\ Anbima200(r)
    /\ r.page.script = "json"
    /\ r.page.doc.top = "obj"
    /\ r.page.doc.props = "obj"
    /\ r.page.doc.pageProps = "obj"
    /\ r.page.doc.fundo = "obj"
    /\ \E k \in FieldKeys : r.page.doc.fields[k] = "absent"

\* C15: when 'fundo' is a non-empty object lacking some of the four fields,
\* buscar_anbima returns Success with a payload that has all four keys, each
\* recovered field holding its value and each missing one the sentinel 'N/A'.
C15_ExtracaoParcial ==
    (task["Anbima"].st = "done" /\ FundoParcial(resp["Anbima"])) =>
        LET d == result["Anbima"]
            f == resp["Anbima"].page.doc.fields
            esperado(k) == IF f[k] = "absent" THEN "\"N/A\"" ELSE f[k]
        IN  /\ d.status = StatusSucesso
            /\ HasPayload(d)
            /\ DOMAIN d.dados_completos =
                    {"nome_fundo", "pl", "cota", "data_referencia"}
            /\ d.dados_completos.nome_fundo = esperado("nome")
            /\ d.dados_completos.pl = esperado("patrimonioLiquido")
            /\ d.dados_completos.cota = esperado("valorCota")
            /\ d.dados_completos.data_referencia = esperado("dataReferencia")

\* C15 witness: a block with the share price but no name was extracted.
C15_Witness ==
    /\ task["Anbima"].st = "done"
    /\ FundoParcial(resp["Anbima"])
    /\ resp["Anbima"].page.doc.fields["nome"] = "absent"
    /\ resp["Anbima"].page.doc.fields["valorCota"] = "1.5"
    /\ result["Anbima"].dados_completos.nome_fundo = "\"N/A\""
    /\ result["Anbima"].dados_completos.cota = "1.5"

\* C16: buscar_vortx returns the 'reachable, data protected' status with a
\* note and no payload for every answer that arrives, whatever its HTTP
\* status; when session.get raises it returns an error status instead.
C16_VortxAlcancavel ==
    task["Vórtx"].st = "done" =>
        LET r == resp["Vórtx"]
            d == result["Vórtx"]
        IN  /\ r.kind = "http" =>
                /\ d.status = StatusPortal
                /\ "nota" \in DOMAIN d
                /\ Len(d.nota) > 0
                /\ ~HasPayload(d)
            /\ r.kind \in {"exception", "timeout"} =>
                /\ d.status = "Erro: " \o r.detail
                /\ d.status # StatusPortal
                /\ ~HasPayload(d)

\* C16 witness: Vórtx answered 503 and the adapter returned the portal status.
C16_Witness ==
    /\ task["Vórtx"].st = "done"
    /\ resp["Vórtx"].kind = "http" /\ resp["Vórtx"].status = 503
    /\ result["Vórtx"].status = StatusPortal

\* C17: the report's identifier is the caller's string, unmodified, while the
\* adapters work with the digits-only identifier, as the url requested from
\* Anbima shows.
C17_IdentificadorOriginal ==
    pc = "done" =>
        LET digitos == SelectSeq(cnpj, IsDigitChar) IN
        /\ report.cnpj_buscado = cnpj
        /\ cnpj_limpo = digitos
        /\ pedidos["Anbima"] =
                <<"https://data.anbima.com.br/fundos/" \o Join(digitos)>>
        /\ report.resultados["Anbima"].url =
                "https://data.anbima.com.br/fundos/" \o Join(digitos)

\* C17 witness: a report for the formatted identifier, queried as digits.
C17_Witness ==
    /\ pc = "done"
    /\ cnpj = CnpjFormatado
    /\ report.cnpj_buscado = CnpjFormatado
    /\ report.resultados["Anbima"].url =
            "https://data.anbima.com.br/fundos/00000000000000"

\* C18 as stated: when the identifier is empty after normalisation,
\* agregar_dados creates no task and passes no url to session.get.
C18_SemBuscaParaVazio ==
    (pc # "idle" /\ limpar_cnpj(cnpj) = <<>>) =>
        \A s \in Sources :
            /\ task[s].st = "none"
            /\ pedidos[s] = <<>>

\* C20: no source is requested more than once in a call, whatever the
\* outcome; each task that ran to a result issued exactly one request, so a
\* call that returns a report has requested each source exactly once; the
\* Vórtx and CVM requests and results are the same for every identifier, and
\* the Anbima url differs whenever the normalised identifier differs.
C20_UmPedidoPorFonte ==
    /\ \A s \in Sources :
        /\ Len(pedidos[s]) <= 1
        /\ task[s].st = "done" => Len(pedidos[s]) = 1
        /\ resp[s] # NoResponse => Len(pedidos[s]) = 1
        /\ Pediu(s) => pedidos[s] = <<url_de(s, cnpj_limpo)>>
    /\ pc = "done" => \A s \in Sources : Len(pedidos[s]) = 1
    /\ Pediu("Vórtx") =>
        pedidos["Vórtx"] =
                <<"https://www.vortx.com.br/investidor/fundos-de-investimento">>
    /\ Pediu("CVM") =>
        pedidos["CVM"] =
                <<"https://cvmweb.cvm.gov.br/swb/default.asp?sg_sistema=fundosreg">>
    /\ Pediu("Anbima") =>
        \A c \in CnpjInputs :
                (url_de("Anbima", limpar_cnpj(c)) = pedidos["Anbima"][1])
                    <=> (limpar_cnpj(c) = cnpj_limpo)
    /\ \A s \in {"Vórtx", "CVM"} :
        task[s].st = "done" =>
            \A c \in CnpjInputs :
                Buscar(s, resp[s], limpar_cnpj(c)).ret = result[s]

\* C20 witness: CVM failed, Vórtx returned, and each source has one request.
C20_Witness ==
    /\ pc = "done"
    /\ cnpj = <<"4", "2">>
    /\ resp["CVM"].kind = "exception"
    /\ resp["Anbima"].kind = "timeout"
    /\ \A s \in Sources : Len(pedidos[s]) = 1
    /\ pedidos["Anbima"] = <<"https://data.anbima.com.br/fundos/42">>

\* the report call c returns when it runs alone with the same outcomes
RelatorioSozinha(c, ts) ==
    LET limpo == limpar_cnpj(ch[c].cnpj) IN
    [cnpj_buscado |-> ch[c].cnpj,
     timestamp |-> ts,
     resultados |-> [s \in Sources |-> Buscar(s, ch[c].resp[s], limpo).ret]]

\* C19: no step of a task or of agregar_dados writes the instance
\* (self.resultados stays empty) or the result of another task, so each of
\* two calls interleaved on one instance returns the report it returns alone.
C19_SemEstadoPartilhado ==
    /\ self_resultados = EmptyDict
    /\ \A c \in Calls :
        /\ \A s \in Sources :
            ch[c].task[s] = "done" =>
                ch[c].result[s] =
                    Buscar(s, ch[c].resp[s], limpar_cnpj(ch[c].cnpj)).ret
        /\ ch[c].pc = "done" =>
            \E ts \in Timestamps : ch[c].report = RelatorioSozinha(c, ts)

\* C19 witness: two calls with different identifiers and different outcomes
\* were in flight together and both returned.
C19_Witness ==
    /\ ch[1].pc = "done" /\ ch[2].pc = "done"
    /\ ch[1].junto /\ ch[2].junto
    /\ ch[1].cnpj # ch[2].cnpj
    /\ ch[1].resp["CVM"].status = 503 /\ ch[2].resp["CVM"].status = 200
    /\ ch[1].report.resultados["CVM"].status = "Erro 503"
    /\ ch[2].report.resultados["CVM"].status = StatusDisponivel
    /\ self_resultados = EmptyDict

====
